---------------------------- MODULE Spec2Model ----------------------------
(***************************************************************************)
(* A model of the Pyth price feed SDK: the schema-driven transformer       *)
(* (schemas/PriceFeed.ts: cast / uncast / transform over typeMap) and the  *)
(* PriceFeed class built on it (index.ts: fromJson, toJson, accessors).    *)
(*                                                                         *)
(* JavaScript values are tagged records; objects live in a heap of cells   *)
(* and are referred to by identity, so that aliasing between the input,    *)
(* the feed and the values handed to the caller is something the model     *)
(* can exhibit.                                                            *)
(***************************************************************************)
EXTENDS Integers, Sequences, FiniteSets, TLC

(***************************************************************************)
(* Bounds of the model.                                                    *)
(***************************************************************************)
\* The wall clock runs over 0 .. MaxNow seconds.
MaxNow == 3
\* Durations passed to getLatestAvailablePriceWithinDuration: -1 .. MaxDuration.
MaxDuration == 1
\* Fields of a value it was handed that the caller overwrites.
MaxMutations == 1

(***************************************************************************)
(* JavaScript values.                                                      *)
(***************************************************************************)
Undefined == [t |-> "undefined"]
Null == [t |-> "null"]
Str(s) == [t |-> "string", s |-> s]
Num(n) == [t |-> "number", n |-> n]
Obj(i) == [t |-> "object", id |-> i]

\* The typeof operator.
TypeOf(v) ==
  CASE v.t = "undefined" -> "undefined"
    [] v.t = "string" -> "string"
    [] v.t = "number" -> "number"
    [] OTHER -> "object"

\* A heap cell: an object with its own properties; arr marks an Array.
Cell(arr, props) == [arr |-> arr, props |-> props]
NoProps == [k \in {} |-> Undefined]

IsObject(v) == v.t = "object"
IsArray(h, v) == IsObject(v) /\ h[v.id].arr
OwnKeys(h, v) == DOMAIN h[v.id].props
HasOwn(h, v, k) == k \in OwnKeys(h, v)
\* val[key] on an object: the own property, or undefined.
Get(h, v, k) == IF HasOwn(h, v, k) THEN h[v.id].props[k] ELSE Undefined
\* obj[key] = x
Put(h, v, k, x) == [h EXCEPT ![v.id].props = (k :> x) @@ @]

\* The value with every object replaced by its content: what deep equality
\* and JSON.stringify see.
RECURSIVE Deep(_, _)
Deep(h, v) ==
  IF IsObject(v)
    THEN [t |-> "object", arr |-> h[v.id].arr,
          props |-> [k \in OwnKeys(h, v) |-> Deep(h, Get(h, v, k))]]
    ELSE v

(***************************************************************************)
(* Type descriptors and typeMap.                                           *)
(***************************************************************************)
TAny == [kind |-> "any"]
\* "" is the string descriptor, 0 the number descriptor, undefined itself.
TString == [kind |-> "prim", prim |-> "string"]
TNumber == [kind |-> "prim", prim |-> "number"]
TUndefined == [kind |-> "prim", prim |-> "undefined"]
u(typs) == [kind |-> "union", unionMembers |-> typs]
o(name, props, additional) ==
  [kind |-> "object", name |-> name, props |-> props, additional |-> additional]
r(name) == [kind |-> "ref", ref |-> name]
P(json, js, typ) == [json |-> json, js |-> js, typ |-> typ]

typeMap ==
  [PriceFeed |-> o("PriceFeed",
     << P("conf", "conf", TString),
        P("ema_conf", "ema_conf", TString),
        P("ema_price", "ema_price", TString),
        P("expo", "expo", TNumber),
        P("id", "id", TString),
        P("max_num_publishers", "max_num_publishers", TNumber),
        P("metadata", "metadata", u(<<TUndefined, r("PriceFeedMetadata")>>)),
        P("num_publishers", "num_publishers", TNumber),
        P("prev_conf", "prev_conf", TString),
        P("prev_price", "prev_price", TString),
        P("prev_publish_time", "prev_publish_time", TNumber),
        P("price", "price", TString),
        P("product_id", "product_id", TString),
        P("publish_time", "publish_time", TNumber),
        P("status", "status", r("PriceStatus")) >>, TAny),
   PriceFeedMetadata |-> o("PriceFeedMetadata",
     << P("attestation_time", "attestation_time", TNumber),
        P("emitter_chain", "emitter_chain", TNumber),
        P("sequence_number", "sequence_number", TNumber) >>, TAny),
   PriceStatus |-> [kind |-> "enum",
                    cases |-> <<"Auction", "Halted", "Trading", "Unknown">>]]

ObjectNodes == {"PriceFeed", "PriceFeedMetadata"}

(***************************************************************************)
(* The memoized key tables, typ.jsonToJS and typ.jsToJSON of each object   *)
(* node of typeMap.                                                        *)
(***************************************************************************)
NoTable == [set |-> FALSE, map |-> NoProps]
NoMemo == [jsonToJS |-> [n \in ObjectNodes |-> NoTable],
           jsToJSON |-> [n \in ObjectNodes |-> NoTable]]

jsonToJSMap(typ) ==
  [k \in {typ.props[i].json : i \in DOMAIN typ.props} |->
     LET p == typ.props[CHOOSE i \in DOMAIN typ.props : typ.props[i].json = k]
     IN [key |-> p.js, typ |-> p.typ]]

jsToJSONMap(typ) ==
  [k \in {typ.props[i].js : i \in DOMAIN typ.props} |->
     LET p == typ.props[CHOOSE i \in DOMAIN typ.props : typ.props[i].js = k]
     IN [key |-> p.json, typ |-> p.typ]]

\* A faulty jsonToJSProps: a table found memoized is replaced by one that
\* keeps the keys but not the types of the properties.
jsonToJSProps_forgetsTypes(typ, m) ==
  IF ~m.jsonToJS[typ.name].set
    THEN [m EXCEPT !.jsonToJS[typ.name] = [set |-> TRUE, map |-> jsonToJSMap(typ)]]
    ELSE [m EXCEPT !.jsonToJS[typ.name].map =
            [k \in DOMAIN @ |-> [key |-> @[k].key, typ |-> TAny]]]

\* A faulty jsonToJSProps: the call that finds the table memoized uses it up,
\* leaving an empty table to itself and to the calls after it.
jsonToJSProps_usedUp(typ, m) ==
  IF ~m.jsonToJS[typ.name].set
    THEN [m EXCEPT !.jsonToJS[typ.name] = [set |-> TRUE, map |-> jsonToJSMap(typ)]]
    ELSE [m EXCEPT !.jsonToJS[typ.name].map = NoProps]

\* jsonToJSProps: compute the table on first use, then reuse it.
jsonToJSProps(typ, m) ==
  IF ~m.jsonToJS[typ.name].set
    THEN [m EXCEPT !.jsonToJS[typ.name] = [set |-> TRUE, map |-> jsonToJSMap(typ)]]
    ELSE m

jsToJSONProps(typ, m) ==
  IF ~m.jsToJSON[typ.name].set
    THEN [m EXCEPT !.jsToJSON[typ.name] = [set |-> TRUE, map |-> jsToJSONMap(typ)]]
    ELSE m

\* getProps(typ) for the direction dir: the memo after the call, and the table.
getProps(dir, typ, m) ==
  IF dir = "jsonToJS"
    THEN LET m1 == jsonToJSProps(typ, m)
         IN [memo |-> m1, props |-> m1.jsonToJS[typ.name].map]
    ELSE LET m1 == jsToJSONProps(typ, m)
         IN [memo |-> m1, props |-> m1.jsToJSON[typ.name].map]

\* Object.getOwnPropertyNames(props): the keys of the table in the order
\* they were inserted, which is the order of typ.props.
PropNames(dir, typ, props) ==
  LET InTable(k) == k \in DOMAIN props
  IN SelectSeq([i \in DOMAIN typ.props |->
                  IF dir = "jsonToJS" THEN typ.props[i].json ELSE typ.props[i].js],
               InTable)

(***************************************************************************)
(* transform.  A call either returns a value or throws; in both cases the  *)
(* heap it allocated in and the tables it memoized are left behind.        *)
(***************************************************************************)
Returned(v, h, m) == [ok |-> TRUE, val |-> v, heap |-> h, memo |-> m]

\* The Error thrown by invalidValue.  A non-empty key selects the message
\* 'Invalid value for key "K". Expected type T but got V', an empty one
\* 'Invalid value V for type T', which carries no key.  The expected type is
\* a descriptor, a list of enum cases, a list of union members or a name.
invalidValue(typ, val, key, h, m) ==
  [ok |-> FALSE,
   err |-> IF key # ""
             THEN [keyed |-> TRUE, key |-> key, typ |-> typ, val |-> Deep(h, val)]
             ELSE [keyed |-> FALSE, typ |-> typ, val |-> Deep(h, val)],
   heap |-> h, memo |-> m]

\* typeof typ === typeof val
transformPrimitive(typ, val, key, h, m) ==
  IF typ.prim = TypeOf(val) THEN Returned(val, h, m)
  ELSE invalidValue(typ, val, key, h, m)

\* A faulty transformEnum: every string passes.
transformEnum_anyString(cases, val, h, m) ==
  IF val.t = "string"
    THEN Returned(val, h, m)
    ELSE invalidValue([kind |-> "cases", cases |-> cases], val, "", h, m)

\* cases.indexOf(val) !== -1 compares with ===: only a string can be found.
transformEnum(cases, val, h, m) ==
  IF val.t = "string" /\ \E i \in DOMAIN cases : cases[i] = val.s
    THEN Returned(val, h, m)
    ELSE invalidValue([kind |-> "cases", cases |-> cases], val, "", h, m)

RECURSIVE resolve(_)
resolve(typ) == IF typ.kind = "ref" THEN resolve(typeMap[typ.ref]) ELSE typ

RECURSIVE transform(_, _, _, _, _, _)
RECURSIVE transformUnionFrom(_, _, _, _, _, _)
RECURSIVE transformDeclaredFrom(_, _, _, _, _, _, _, _)
RECURSIVE transformAdditional(_, _, _, _, _, _, _)

\* A faulty loop of transformUnion: no try around the member, so that the
\* Error of the first member that fails ends the union.
transformUnionFrom_noCatch(i, typs, val, dir, h, m) ==
  IF i > Len(typs)
    THEN invalidValue([kind |-> "typs", unionMembers |-> typs], val, "", h, m)
  ELSE transform(val, typs[i], dir, "", h, m)

\* The loop of transformUnion from member i on: the first member that
\* validates wins, a member's Error is swallowed.
transformUnionFrom(i, typs, val, dir, h, m) ==
  IF i > Len(typs)
    THEN invalidValue([kind |-> "typs", unionMembers |-> typs], val, "", h, m)
  ELSE LET res == transform(val, typs[i], dir, "", h, m)
       IN IF res.ok THEN res
          ELSE transformUnionFrom(i + 1, typs, val, dir, res.heap, res.memo)

transformUnion(typs, val, dir, h, m) == transformUnionFrom(1, typs, val, dir, h, m)

\* A faulty first forEach: a mismatch does not end the loop, and the error
\* of the last malformed property is the one thrown.
transformDeclaredFrom_keepGoing(i, names, props, val, dir, result, h, m) ==
  IF i > Len(names) THEN Returned(result, h, m)
  ELSE LET key == names[i]
           prop == props[key]
           v == IF HasOwn(h, val, key) THEN Get(h, val, key) ELSE Undefined
           res == transform(v, prop.typ, dir, prop.key, h, m)
           rest == transformDeclaredFrom(i + 1, names, props, val, dir, result,
                     IF res.ok THEN Put(res.heap, result, prop.key, res.val)
                               ELSE res.heap,
                     res.memo)
       IN IF res.ok \/ ~rest.ok THEN rest ELSE res

\* The first forEach of transformObject, from the i-th declared property on:
\* result[prop.key] = transform(v, prop.typ, getProps, prop.key).
transformDeclaredFrom(i, names, props, val, dir, result, h, m) ==
  IF i > Len(names) THEN Returned(result, h, m)
  ELSE LET key == names[i]
           prop == props[key]
           v == IF HasOwn(h, val, key) THEN Get(h, val, key) ELSE Undefined
           res == transform(v, prop.typ, dir, prop.key, h, m)
       IN IF ~res.ok THEN res
          ELSE transformDeclaredFrom(i + 1, names, props, val, dir, result,
                 Put(res.heap, result, prop.key, res.val), res.memo)

\* A faulty second forEach: the properties the table does not declare are
\* left out of the result.
transformAdditional_dropped(keys, additional, val, dir, result, h, m) ==
  Returned(result, h, m)

\* The second forEach of transformObject: the own properties of val that the
\* table does not declare.
transformAdditional(keys, additional, val, dir, result, h, m) ==
  IF keys = {} THEN Returned(result, h, m)
  ELSE LET key == CHOOSE k \in keys : TRUE
           res == transform(Get(h, val, key), additional, dir, key, h, m)
       IN IF ~res.ok THEN res
          ELSE transformAdditional(keys \ {key}, additional, val, dir, result,
                 Put(res.heap, result, key, res.val), res.memo)

transformObject(props, names, additional, val, dir, h, m) ==
  IF val.t = "null" \/ TypeOf(val) # "object" \/ IsArray(h, val)
    THEN invalidValue([kind |-> "name", name |-> "object"], val, "", h, m)
    ELSE LET result == Obj(Len(h) + 1)
             h1 == Append(h, Cell(FALSE, NoProps))
             dres == transformDeclaredFrom(1, names, props, val, dir, result, h1, m)
         IN IF ~dres.ok THEN dres
            ELSE transformAdditional(OwnKeys(h, val) \ DOMAIN props, additional,
                   val, dir, result, dres.heap, dres.memo)

\* typeMap holds no null, false, array or Date descriptor, so those branches
\* of transform are never taken.
transform(val, typ, dir, key, h, m) ==
  IF typ.kind = "any" THEN Returned(val, h, m)
  ELSE LET t == resolve(typ)
       IN CASE t.kind = "enum" -> transformEnum(t.cases, val, h, m)
            [] t.kind = "union" -> transformUnion(t.unionMembers, val, dir, h, m)
            [] t.kind = "object" ->
                 LET gp == getProps(dir, t, m)
                 IN transformObject(gp.props, PropNames(dir, t, gp.props),
                                    t.additional, val, dir, h, gp.memo)
            [] OTHER -> transformPrimitive(t, val, key, h, m)

cast(val, typ, h, m) == transform(val, typ, "jsonToJS", "", h, m)
uncast(val, typ, h, m) == transform(val, typ, "jsToJSON", "", h, m)

toPriceFeed(json, h, m) == cast(json, r("PriceFeed"), h, m)
priceFeedToJson(value, h, m) == uncast(value, r("PriceFeed"), h, m)

(***************************************************************************)
(* index.ts: Price, PriceFeedMetadata and PriceFeed.  A method returns     *)
(* [threw, val, heap] (and memo when it runs the transformer).             *)
(***************************************************************************)
Done(v, h) == [threw |-> FALSE, val |-> v, heap |-> h]
TypeError(h) == [threw |-> TRUE, val |-> Undefined, heap |-> h]

\* new Price(conf, expo, price)
Price(conf, expo, price, h) ==
  Done(Obj(Len(h) + 1),
       Append(h, Cell(FALSE, [conf |-> conf, expo |-> expo, price |-> price])))

\* A faulty constructor: it hands back the object it was given.
PriceFeedMetadata_sameObject(metadata, h) ==
  IF metadata.t \in {"undefined", "null"} THEN TypeError(h)
  ELSE Done(metadata, h)

\* new PriceFeedMetadata(metadata): reading a property of undefined or null
\* is a TypeError.
PriceFeedMetadata(metadata, h) ==
  IF metadata.t \in {"undefined", "null"} THEN TypeError(h)
  ELSE Done(Obj(Len(h) + 1),
            Append(h, Cell(FALSE,
              [attestation_time |-> IF IsObject(metadata)
                                      THEN Get(h, metadata, "attestation_time")
                                      ELSE Undefined,
               emitter_chain |-> IF IsObject(metadata)
                                   THEN Get(h, metadata, "emitter_chain")
                                   ELSE Undefined,
               sequence_number |-> IF IsObject(metadata)
                                     THEN Get(h, metadata, "sequence_number")
                                     ELSE Undefined])))

\* new PriceFeed(rawValues): the fields of the object.
PriceFeed(rawValues) ==
  [conf |-> rawValues.conf,
   emaConf |-> rawValues.emaConf,
   emaPrice |-> rawValues.emaPrice,
   expo |-> rawValues.expo,
   id |-> rawValues.id,
   maxNumPublishers |-> rawValues.maxNumPublishers,
   metadata |-> rawValues.metadata,
   numPublishers |-> rawValues.numPublishers,
   prevConf |-> rawValues.prevConf,
   prevPrice |-> rawValues.prevPrice,
   prevPublishTime |-> rawValues.prevPublishTime,
   price |-> rawValues.price,
   productId |-> rawValues.productId,
   publishTime |-> rawValues.publishTime,
   status |-> rawValues.status]

\* PriceFeed.fromJson(json): [ok, feed | err, heap, memo].
fromJson(json, h, m) ==
  LET c == toPriceFeed(json, h, m)
  IN IF ~c.ok THEN c
     ELSE LET jsonFeed == c.val
              f(k) == Get(c.heap, jsonFeed, k)
          IN [ok |-> TRUE, heap |-> c.heap, memo |-> c.memo,
              feed |-> PriceFeed(
                [conf |-> f("conf"),
                 emaConf |-> f("ema_conf"),
                 emaPrice |-> f("ema_price"),
                 expo |-> f("expo"),
                 id |-> f("id"),
                 maxNumPublishers |-> f("max_num_publishers"),
                 metadata |-> f("metadata"),
                 numPublishers |-> f("num_publishers"),
                 prevConf |-> f("prev_conf"),
                 prevPrice |-> f("prev_price"),
                 prevPublishTime |-> f("prev_publish_time"),
                 price |-> f("price"),
                 productId |-> f("product_id"),
                 publishTime |-> f("publish_time"),
                 status |-> f("status")])]

\* A faulty toJson: ema_price filled from emaConf.
toJson_swapped(this, h, m) ==
  LET jsonFeed == Obj(Len(h) + 1)
      h1 == Append(h, Cell(FALSE,
              [conf |-> this.conf,
               ema_conf |-> this.emaConf,
               ema_price |-> this.emaConf,
               expo |-> this.expo,
               id |-> this.id,
               max_num_publishers |-> this.maxNumPublishers,
               metadata |-> this.metadata,
               num_publishers |-> this.numPublishers,
               prev_conf |-> this.prevConf,
               prev_price |-> this.prevPrice,
               prev_publish_time |-> this.prevPublishTime,
               price |-> this.price,
               product_id |-> this.productId,
               publish_time |-> this.publishTime,
               status |-> this.status]))
  IN priceFeedToJson(jsonFeed, h1, m)

\* toJson(): the object literal jsonFeed, then Convert.priceFeedToJson.
toJson(this, h, m) ==
  LET jsonFeed == Obj(Len(h) + 1)
      h1 == Append(h, Cell(FALSE,
              [conf |-> this.conf,
               ema_conf |-> this.emaConf,
               ema_price |-> this.emaPrice,
               expo |-> this.expo,
               id |-> this.id,
               max_num_publishers |-> this.maxNumPublishers,
               metadata |-> this.metadata,
               num_publishers |-> this.numPublishers,
               prev_conf |-> this.prevConf,
               prev_price |-> this.prevPrice,
               prev_publish_time |-> this.prevPublishTime,
               price |-> this.price,
               product_id |-> this.productId,
               publish_time |-> this.publishTime,
               status |-> this.status]))
  IN priceFeedToJson(jsonFeed, h1, m)

Trading == Str("Trading")

\* A faulty getCurrentPrice: conf and price passed to Price in the wrong order.
getCurrentPrice_swapped(this, h) ==
  IF this.status # Trading THEN Done(Undefined, h)
  ELSE Price(this.price, this.expo, this.conf, h)

getCurrentPrice(this, h) ==
  IF this.status # Trading THEN Done(Undefined, h)
  ELSE Price(this.conf, this.expo, this.price, h)

\* A faulty getEmaPrice: undefined unless the status is Trading.
getEmaPrice_onlyTrading(this, h) ==
  IF this.status # Trading THEN Done(Undefined, h)
  ELSE Price(this.emaConf, this.expo, this.emaPrice, h)

getEmaPrice(this, h) == Price(this.emaConf, this.expo, this.emaPrice, h)

\* An array literal [a, b].
Pair(a, b, h) ==
  Done(Obj(Len(h) + 1), Append(h, Cell(TRUE, ("0" :> a) @@ ("1" :> b))))

\* A faulty getLatestAvailablePriceUnchecked: the previous price paired with
\* the current publish time.
getLatestAvailablePriceUnchecked_staleTime(this, h) ==
  IF this.status = Trading
    THEN LET p == Price(this.conf, this.expo, this.price, h)
         IN Pair(p.val, this.publishTime, p.heap)
    ELSE LET p == Price(this.prevConf, this.expo, this.prevPrice, h)
         IN Pair(p.val, this.publishTime, p.heap)

getLatestAvailablePriceUnchecked(this, h) ==
  IF this.status = Trading
    THEN LET p == Price(this.conf, this.expo, this.price, h)
         IN Pair(p.val, this.publishTime, p.heap)
    ELSE LET p == Price(this.prevConf, this.expo, this.prevPrice, h)
         IN Pair(p.val, this.prevPublishTime, p.heap)

Abs(x) == IF x < 0 THEN -x ELSE x

\* Math.floor(Date.now() / 1000), Date.now() being the clock in milliseconds.
CurrentTime(dateNow) == dateNow \div 1000

\* A faulty getLatestAvailablePriceWithinDuration: the current price, judged
\* against publishTime, whatever the status.
getLatestAvailablePriceWithinDuration_current(this, duration, dateNow, h) ==
  LET p == Price(this.conf, this.expo, this.price, h)
      currentTime == CurrentTime(dateNow)
  IN IF Abs(currentTime - this.publishTime.n) > duration
       THEN Done(Undefined, p.heap)
       ELSE Done(p.val, p.heap)

\* A faulty getLatestAvailablePriceWithinDuration: Date.now() taken as it is,
\* in milliseconds.
getLatestAvailablePriceWithinDuration_millis(this, duration, dateNow, h) ==
  LET res == getLatestAvailablePriceUnchecked(this, h)
      price == Get(res.heap, res.val, "0")
      timestamp == Get(res.heap, res.val, "1")
      currentTime == dateNow
  IN IF Abs(currentTime - timestamp.n) > duration
       THEN Done(Undefined, res.heap)
       ELSE Done(price, res.heap)

\* A faulty getLatestAvailablePriceWithinDuration: a one-sided staleness
\* check, which lets a timestamp in the future through.
getLatestAvailablePriceWithinDuration_oneSided(this, duration, dateNow, h) ==
  LET res == getLatestAvailablePriceUnchecked(this, h)
      price == Get(res.heap, res.val, "0")
      timestamp == Get(res.heap, res.val, "1")
      currentTime == CurrentTime(dateNow)
  IN IF currentTime - timestamp.n > duration
       THEN Done(Undefined, res.heap)
       ELSE Done(price, res.heap)

getLatestAvailablePriceWithinDuration(this, duration, dateNow, h) ==
  LET res == getLatestAvailablePriceUnchecked(this, h)
      price == Get(res.heap, res.val, "0")
      timestamp == Get(res.heap, res.val, "1")
      currentTime == CurrentTime(dateNow)
  IN IF Abs(currentTime - timestamp.n) > duration
       THEN Done(Undefined, res.heap)
       ELSE Done(price, res.heap)

\* A faulty getMetadata: a zero-filled value when the feed has no metadata.
getMetadata_default(this, h) ==
  IF this.metadata = Undefined
    THEN Done(Obj(Len(h) + 1),
              Append(h, Cell(FALSE, [attestation_time |-> Num(0),
                                     emitter_chain |-> Num(0),
                                     sequence_number |-> Num(0)])))
    ELSE PriceFeedMetadata(this.metadata, h)

\* A faulty getMetadata: no check that the feed has metadata.
getMetadata_unguarded(this, h) == PriceFeedMetadata(this.metadata, h)

\* A faulty getMetadata: the stored object itself, not a copy.
getMetadata_alias(this, h) == Done(this.metadata, h)

getMetadata(this, h) ==
  IF this.metadata = Undefined THEN Done(Undefined, h)
  ELSE PriceFeedMetadata(this.metadata, h)

(***************************************************************************)
(* The inputs handed to fromJson: the object of the repository's tests,    *)
(* with every status, with and without metadata and an undeclared          *)
(* property, and with fields made malformed.                               *)
(***************************************************************************)
StringFields == {"conf", "ema_conf", "ema_price", "id", "prev_conf",
                 "prev_price", "price", "product_id"}
NumberFields == {"expo", "max_num_publishers", "num_publishers",
                 "prev_publish_time", "publish_time"}
ScalarFields == StringFields \cup NumberFields \cup {"status"}
Declared == ScalarFields \cup {"metadata"}
MetadataFields == {"attestation_time", "emitter_chain", "sequence_number"}
Statuses == {"Auction", "Halted", "Trading", "Unknown"}

BaseValue(k, status) ==
  CASE k = "conf" -> Str("1")
    [] k = "ema_conf" -> Str("2")
    [] k = "ema_price" -> Str("3")
    [] k = "expo" -> Num(4)
    [] k = "id" -> Str("abcdef0123456789")
    [] k = "max_num_publishers" -> Num(6)
    [] k = "num_publishers" -> Num(5)
    [] k = "prev_conf" -> Str("7")
    [] k = "prev_price" -> Str("8")
    [] k = "prev_publish_time" -> Num(1)
    [] k = "price" -> Str("10")
    [] k = "product_id" -> Str("0123456789abcdef")
    [] k = "publish_time" -> Num(2)
    [] k = "status" -> Str(status)

BadKinds == {"missing", "wrongType", "null"}
BadValue(k, kind) ==
  CASE kind = "null" -> Null
    [] k \in StringFields -> Num(0)
    [] k \in NumberFields -> Str("4")
    [] OTHER -> Str("Bogus")

ValidMeta == {"absent", "object", "objectExtra"}
InvalidMeta == {"null", "string", "array", "badField", "missingField"}
MetaInHeap == {"object", "objectExtra", "array", "badField", "missingField"}

MetaCell(meta) ==
  CASE meta = "object" ->
         Cell(FALSE, [attestation_time |-> Num(7), emitter_chain |-> Num(8),
                      sequence_number |-> Num(9)])
    [] meta = "objectExtra" ->
         Cell(FALSE, [attestation_time |-> Num(7), emitter_chain |-> Num(8),
                      sequence_number |-> Num(9), note |-> Str("n"),
                      origin |-> Obj(2)])
    [] meta = "badField" ->
         Cell(FALSE, [attestation_time |-> Num(7), emitter_chain |-> Str("8"),
                      sequence_number |-> Num(9)])
    [] meta = "missingField" ->
         Cell(FALSE, [attestation_time |-> Num(7), emitter_chain |-> Num(8)])
    [] OTHER -> Cell(TRUE, NoProps)

\* The object under the undeclared property origin of the metadata.
OriginCell == Cell(FALSE, [chain |-> Str("solana")])

Tops == {"null", "string", "array", "undefined"}

Scenarios ==
  { [top |-> "object", status |-> st, meta |-> me, extra |-> ex, bad |-> b] :
      st \in Statuses, me \in ValidMeta \cup InvalidMeta, ex \in BOOLEAN,
      b \in {NoProps} }
  \cup
  { [top |-> "object", status |-> st, meta |-> me, extra |-> ex, bad |-> b] :
      st \in {"Trading"}, me \in {"absent", "objectExtra"}, ex \in BOOLEAN,
      b \in UNION { [{k} -> BadKinds] : k \in ScalarFields } }
  \cup
  { [top |-> "object", status |-> st, meta |-> me, extra |-> ex, bad |-> b] :
      st \in {"Trading"}, me \in {"absent", "null", "badField"}, ex \in {FALSE},
      b \in { [conf |-> "wrongType", expo |-> "wrongType"],
              [expo |-> "missing", status |-> "wrongType"],
              [price |-> "null", status |-> "wrongType"] } }
  \cup
  { [top |-> tp, status |-> "Trading", meta |-> "absent", extra |-> FALSE,
     bad |-> NoProps] : tp \in Tops }

\* The own properties of the input object.
InputProps(sc) ==
  LET keys == (ScalarFields \ {k \in DOMAIN sc.bad : sc.bad[k] = "missing"})
              \cup (IF sc.meta = "absent" THEN {} ELSE {"metadata"})
              \cup (IF sc.extra THEN {"slot", "tag"} ELSE {})
  IN [k \in keys |->
        CASE k = "slot" -> Num(12)
          [] k = "tag" -> Null
          [] k = "metadata" ->
               (CASE sc.meta \in MetaInHeap -> Obj(1)
                  [] sc.meta = "null" -> Null
                  [] sc.meta = "string" -> Str("m")
                  [] OTHER -> Undefined)
          [] k \in DOMAIN sc.bad -> BadValue(k, sc.bad[k])
          [] OTHER -> BaseValue(k, sc.status)]

InputHeap(sc) ==
  CASE sc.top = "array" -> << Cell(TRUE, NoProps) >>
    [] sc.top = "object" /\ sc.meta = "objectExtra" ->
         << MetaCell(sc.meta), OriginCell, Cell(FALSE, InputProps(sc)) >>
    [] sc.top = "object" /\ sc.meta \in MetaInHeap ->
         << MetaCell(sc.meta), Cell(FALSE, InputProps(sc)) >>
    [] sc.top = "object" -> << Cell(FALSE, InputProps(sc)) >>
    [] OTHER -> << >>

InputValue(sc) ==
  CASE sc.top = "array" -> Obj(1)
    [] sc.top = "object" -> Obj(Len(InputHeap(sc)))
    [] sc.top = "null" -> Null
    [] sc.top = "string" -> Str("feed")
    [] OTHER -> Undefined

(***************************************************************************)
(* The state machine: a caller that holds one input, builds a PriceFeed    *)
(* from it and calls its methods, while the wall clock advances.           *)
(***************************************************************************)
VARIABLES
  heap,    \* the objects: a sequence of cells, an object's identity its index
  base,    \* the objects up to this index are still referred to
  memo,    \* the key tables memoized in typeMap
  feed,    \* the PriceFeed object, once built
  built,   \* the feed's fields and metadata as they were when it was built
  src,     \* the input: its value and its content when the caller made it
  clock,   \* Date.now(), in milliseconds
  ret,     \* the last call: its arguments, how it ended and what it returned
  watch    \* the first result of one method, kept to compare later calls with

vars == << heap, base, memo, feed, built, src, clock, ret, watch >>

NoFeed == [status |-> Undefined]

\* The timestamp getLatestAvailablePriceUnchecked pairs with the price.
LatestTime(f) ==
  IF f.status = Trading THEN f.publishTime.n ELSE f.prevPublishTime.n

WithinDuration == "getLatestAvailablePriceWithinDuration"

\* Nothing is watched.
NoWatch == [op |-> "none"]
\* The first call of the method op is watched: seen once it has been made,
\* with its argument, its time and the content of what it returned.
WatchFirst(op) ==
  [op |-> op, seen |-> FALSE, arg |-> 0, at |-> 0, snap |-> Undefined]
\* The calls getLatestAvailablePriceWithinDuration(d) are watched: early
\* once one made before the price's timestamp has returned undefined,
\* present once one has returned a price, gone once one made at or after the
\* price's timestamp has returned undefined.
WatchStale(d) ==
  [op |-> "stale", arg |-> d, early |-> FALSE, present |-> FALSE, gone |-> FALSE]

\* What is kept of the call c on the feed f.
Observed(w, c, f) ==
  CASE w.op = "none" \/ c.op \in {"none", "fromJson", "mirror"} -> w
    [] w.op = "stale" ->
         IF c.op = WithinDuration /\ c.arg = w.arg
           THEN [w EXCEPT
                   !.early = @ \/ (/\ c.val = Undefined
                                   /\ CurrentTime(c.at) < LatestTime(f)),
                   !.present = @ \/ c.val # Undefined,
                   !.gone = @ \/ (/\ c.val = Undefined
                                  /\ CurrentTime(c.at) >= LatestTime(f))]
           ELSE w
    [] OTHER ->
         IF c.op = w.op /\ ~w.seen /\ ~c.threw
           THEN [w EXCEPT !.seen = TRUE, !.arg = c.arg, !.at = c.at,
                          !.snap = c.snap]
           ELSE w

Observe == watch' = Observed(watch, ret', feed')

\* A feed with its metadata object replaced by the object's content.
DeepFeed(h, f) == [f EXCEPT !.metadata = Deep(h, f.metadata)]

\* The objects a new call finds: the caller keeps the value of its last call
\* only, and what nothing refers to any more is collected.
Live == SubSeq(heap, 1, base)

Init ==
  /\ \E sc \in Scenarios :
       /\ heap = InputHeap(sc)
       /\ src = [val |-> InputValue(sc),
                 snap |-> Deep(InputHeap(sc), InputValue(sc))]
  /\ base = Len(heap)
  /\ memo = NoMemo
  /\ feed = NoFeed
  /\ built = NoFeed
  /\ clock = 500
  /\ ret = [op |-> "none"]
  /\ watch = NoWatch

FromJson ==
  /\ feed = NoFeed
  /\ LET res == fromJson(src.val, Live, memo)
     IN /\ heap' = res.heap
        /\ memo' = res.memo
        /\ IF res.ok
             THEN /\ feed' = res.feed
                  /\ built' = DeepFeed(res.heap, res.feed)
                  /\ base' = Len(res.heap)
                  /\ ret' = [op |-> "fromJson", threw |-> FALSE, tables |-> memo]
             ELSE /\ UNCHANGED << feed, built, base >>
                  /\ ret' = [op |-> "fromJson", threw |-> TRUE, err |-> res.err,
                             tables |-> memo]
  /\ UNCHANGED << src, clock >>
  /\ Observe

\* What a method call leaves in ret; for a call that runs the transformer,
\* ret.tables are the key tables the call found.
Call(op, arg, res) ==
  [op |-> op, arg |-> arg, at |-> clock, threw |-> res.threw,
   val |-> res.val, snap |-> Deep(res.heap, res.val), before |-> base]

ToJson ==
  /\ feed # NoFeed
  /\ LET res == toJson(feed, Live, memo)
     IN /\ heap' = res.heap
        /\ memo' = res.memo
        /\ ret' = IF res.ok
                    THEN Call("toJson", 0,
                              [threw |-> FALSE, val |-> res.val, heap |-> res.heap])
                         @@ [tables |-> memo]
                    ELSE [op |-> "toJson", threw |-> TRUE, err |-> res.err,
                          tables |-> memo]
  /\ UNCHANGED << base, feed, built, src, clock >>
  /\ Observe

GetCurrentPrice ==
  /\ feed # NoFeed
  /\ LET res == getCurrentPrice(feed, Live)
     IN /\ heap' = res.heap
        /\ ret' = Call("getCurrentPrice", 0, res)
  /\ UNCHANGED << base, memo, feed, built, src, clock >>
  /\ Observe

GetEmaPrice ==
  /\ feed # NoFeed
  /\ LET res == getEmaPrice(feed, Live)
     IN /\ heap' = res.heap
        /\ ret' = Call("getEmaPrice", 0, res)
  /\ UNCHANGED << base, memo, feed, built, src, clock >>
  /\ Observe

GetLatestAvailablePriceUnchecked ==
  /\ feed # NoFeed
  /\ LET res == getLatestAvailablePriceUnchecked(feed, Live)
     IN /\ heap' = res.heap
        /\ ret' = Call("getLatestAvailablePriceUnchecked", 0, res)
  /\ UNCHANGED << base, memo, feed, built, src, clock >>
  /\ Observe

GetLatestAvailablePriceWithinDuration(duration) ==
  /\ feed # NoFeed
  /\ LET res == getLatestAvailablePriceWithinDuration(feed, duration, clock, Live)
     IN /\ heap' = res.heap
        /\ ret' = Call("getLatestAvailablePriceWithinDuration", duration, res)
  /\ UNCHANGED << base, memo, feed, built, src, clock >>
  /\ Observe

GetMetadata ==
  /\ feed # NoFeed
  /\ LET res == getMetadata(feed, Live)
     IN /\ heap' = res.heap
        /\ ret' = Call("getMetadata", 0, res)
  /\ UNCHANGED << base, memo, feed, built, src, clock >>
  /\ Observe

Accessors == {"getCurrentPrice", "getEmaPrice", "getLatestAvailablePriceUnchecked",
              "getLatestAvailablePriceWithinDuration", "getMetadata"}

\* The Price or metadata object the last accessor call handed to the caller
\* (inside the pair, for getLatestAvailablePriceUnchecked).
Handed ==
  IF ret.op \notin Accessors \/ ret.threw \/ ~IsObject(ret.val) THEN {}
  ELSE IF IsArray(heap, ret.val)
         THEN {Get(heap, ret.val, "0").id}
         ELSE {ret.val.id}

Written == Str("written")
WrittenFields ==
  {ik \in UNION {{<< id, k >> : k \in OwnKeys(heap, Obj(id))} : id \in Handed} :
     Get(heap, Obj(ik[1]), ik[2]) = Written}

\* The caller overwrites a field of the value it was handed.
Mutate(id, k) ==
  /\ Cardinality(WrittenFields) < MaxMutations
  /\ Get(heap, Obj(id), k) # Written
  /\ heap' = Put(heap, Obj(id), k, Written)
  /\ UNCHANGED << base, memo, feed, built, src, clock, ret >>
  /\ Observe

Tick ==
  /\ CurrentTime(clock) < MaxNow
  /\ clock' = clock + 1000
  /\ UNCHANGED << heap, base, memo, feed, built, src, ret >>
  /\ Observe

Durations == (-1) .. MaxDuration

Next ==
  \/ FromJson
  \/ ToJson
  \/ GetCurrentPrice
  \/ GetEmaPrice
  \/ GetLatestAvailablePriceUnchecked
  \/ \E d \in Durations : GetLatestAvailablePriceWithinDuration(d)
  \/ GetMetadata
  \/ \E id \in Handed : \E k \in OwnKeys(heap, Obj(id)) : Mutate(id, k)
  \/ Tick

Spec == Init /\ [][Next]_vars

\* Convert.priceFeedToJson(Convert.toPriceFeed(json)) on the caller's input:
\* ret.typed is the content of the typed value, ret.snap of the JSON made
\* from it.
ConvertMirror ==
  /\ LET c == toPriceFeed(src.val, Live, memo)
         j == priceFeedToJson(c.val, c.heap, c.memo)
     IN IF ~c.ok
          THEN /\ heap' = c.heap
               /\ memo' = c.memo
               /\ ret' = [op |-> "mirror", threw |-> TRUE, err |-> c.err,
                          tables |-> memo]
          ELSE /\ heap' = j.heap
               /\ memo' = j.memo
               /\ ret' = IF j.ok
                           THEN [op |-> "mirror", threw |-> FALSE, val |-> j.val,
                                 snap |-> Deep(j.heap, j.val),
                                 typed |-> Deep(c.heap, c.val), tables |-> memo]
                           ELSE [op |-> "mirror", threw |-> TRUE, err |-> j.err,
                                 tables |-> memo]
  /\ UNCHANGED << base, feed, built, src, clock >>
  /\ Observe

\* The inputs of other callers: no object, a valid object without and with
\* metadata, and an object with a malformed field.
OtherScenarios ==
  { [top |-> "string", status |-> "Trading", meta |-> "absent", extra |-> FALSE,
     bad |-> NoProps],
    [top |-> "object", status |-> "Trading", meta |-> "absent", extra |-> FALSE,
     bad |-> NoProps],
    [top |-> "object", status |-> "Unknown", meta |-> "object", extra |-> TRUE,
     bad |-> NoProps],
    [top |-> "object", status |-> "Trading", meta |-> "absent", extra |-> FALSE,
     bad |-> [expo |-> "wrongType"]] }

\* Another caller's PriceFeed.fromJson on its own input.  Its objects are
\* not the caller's, so they are kept apart from heap; what it leaves behind
\* for the caller is what it memoized in typeMap.
OtherFromJson(sc) ==
  /\ memo' = fromJson(InputValue(sc), InputHeap(sc), memo).memo
  /\ UNCHANGED << heap, base, feed, built, src, clock, ret >>
  /\ Observe

\* A PriceFeed made with new PriceFeed(...), with metadata made with new
\* PriceFeedMetadata(...) or without metadata: [feed, heap].
NewPriceFeed(withMetadata) ==
  LET md == IF withMetadata
              THEN PriceFeedMetadata(Obj(1), << MetaCell("object") >>)
              ELSE Done(Undefined, << >>)
  IN [heap |-> md.heap,
      feed |-> PriceFeed(
        [conf |-> BaseValue("conf", "Trading"),
         emaConf |-> BaseValue("ema_conf", "Trading"),
         emaPrice |-> BaseValue("ema_price", "Trading"),
         expo |-> BaseValue("expo", "Trading"),
         id |-> BaseValue("id", "Trading"),
         maxNumPublishers |-> BaseValue("max_num_publishers", "Trading"),
         metadata |-> md.val,
         numPublishers |-> BaseValue("num_publishers", "Trading"),
         prevConf |-> BaseValue("prev_conf", "Trading"),
         prevPrice |-> BaseValue("prev_price", "Trading"),
         prevPublishTime |-> BaseValue("prev_publish_time", "Trading"),
         price |-> BaseValue("price", "Trading"),
         productId |-> BaseValue("product_id", "Trading"),
         publishTime |-> BaseValue("publish_time", "Trading"),
         status |-> BaseValue("status", "Trading")])]

\* Another caller's toJson() on a PriceFeed of its own.
OtherToJson(withMetadata) ==
  /\ LET other == NewPriceFeed(withMetadata)
     IN memo' = toJson(other.feed, other.heap, memo).memo
  /\ UNCHANGED << heap, base, feed, built, src, clock, ret >>
  /\ Observe

\* Callers that share typeMap: the caller's own calls on its input and its
\* feed, between the calls of the others.
NextShared ==
  \/ FromJson
  \/ ToJson
  \/ ConvertMirror
  \/ GetCurrentPrice
  \/ GetEmaPrice
  \/ GetLatestAvailablePriceUnchecked
  \/ \E d \in Durations : GetLatestAvailablePriceWithinDuration(d)
  \/ GetMetadata
  \/ \E sc \in OtherScenarios : OtherFromJson(sc)
  \/ \E withMetadata \in BOOLEAN : OtherToJson(withMetadata)

\* The caller's inputs when typeMap is shared: valid objects with and
\* without metadata and undeclared properties, objects with a malformed
\* field or metadata, and inputs that are no object.
SharedScenarios ==
  { [top |-> "object", status |-> st, meta |-> me, extra |-> ex, bad |-> NoProps] :
      st \in {"Trading", "Unknown"}, me \in {"absent", "objectExtra"},
      ex \in BOOLEAN }
  \cup
  { [top |-> "object", status |-> "Trading", meta |-> me, extra |-> FALSE,
     bad |-> NoProps] : me \in {"null", "badField"} }
  \cup
  { [top |-> "object", status |-> "Trading", meta |-> "absent", extra |-> FALSE,
     bad |-> b] : b \in { [expo |-> "wrongType"], [status |-> "wrongType"],
                          [conf |-> "missing"] } }
  \cup
  { [top |-> tp, status |-> "Trading", meta |-> "absent", extra |-> FALSE,
     bad |-> NoProps] : tp \in {"string", "null"} }

InitShared ==
  /\ \E sc \in SharedScenarios :
       /\ heap = InputHeap(sc)
       /\ src = [val |-> InputValue(sc),
                 snap |-> Deep(InputHeap(sc), InputValue(sc))]
  /\ base = Len(heap)
  /\ memo = NoMemo
  /\ feed = NoFeed
  /\ built = NoFeed
  /\ clock = 500
  /\ ret = [op |-> "none"]
  /\ watch = NoWatch

SpecShared == InitShared /\ [][NextShared]_vars

\* The objects of the input: the object handed to fromJson, its metadata
\* object and the object under the metadata's undeclared property.
InputObjects == IF IsObject(src.val) THEN 1 .. src.val.id ELSE {}

InputWritten ==
  {ik \in UNION {{<< id, k >> : k \in OwnKeys(heap, Obj(id))} : id \in InputObjects} :
     Get(heap, Obj(ik[1]), ik[2]) = Written}

\* After fromJson has returned the feed, the caller overwrites a field of
\* one of the objects of the input.
MutateInput(id, k) ==
  /\ feed # NoFeed
  /\ Cardinality(InputWritten) < MaxMutations
  /\ Get(heap, Obj(id), k) # Written
  /\ heap' = Put(heap, Obj(id), k, Written)
  /\ UNCHANGED << base, memo, feed, built, src, clock, ret >>
  /\ Observe

\* A caller that goes on writing into the input it built the feed from.
NextInput ==
  \/ FromJson
  \/ ToJson
  \/ GetCurrentPrice
  \/ GetEmaPrice
  \/ GetLatestAvailablePriceUnchecked
  \/ \E d \in Durations : GetLatestAvailablePriceWithinDuration(d)
  \/ GetMetadata
  \/ \E id \in InputObjects : \E k \in OwnKeys(heap, Obj(id)) : MutateInput(id, k)

\* The methods of a PriceFeed.
Methods == Accessors \cup {"toJson"}

\* Two valid inputs: a feed that is Trading, with metadata, and one that is
\* not, without metadata.
WatchScenarios ==
  { [top |-> "object", status |-> "Trading", meta |-> "objectExtra",
     extra |-> FALSE, bad |-> NoProps],
    [top |-> "object", status |-> "Halted", meta |-> "absent",
     extra |-> FALSE, bad |-> NoProps] }

\* The caller starts with a valid input and one of the watches ws.
Begin(ws) ==
  /\ \E sc \in WatchScenarios :
       /\ heap = InputHeap(sc)
       /\ src = [val |-> InputValue(sc),
                 snap |-> Deep(InputHeap(sc), InputValue(sc))]
  /\ base = Len(heap)
  /\ memo = NoMemo
  /\ feed = NoFeed
  /\ built = NoFeed
  /\ clock = 500
  /\ ret = [op |-> "none"]
  /\ watch \in ws

\* The same caller, keeping the first result of one of the methods.
InitFirst == Begin({WatchFirst(op) : op \in Methods})

SpecFirst == InitFirst /\ [][Next]_vars

\* The same caller, following getLatestAvailablePriceWithinDuration(d) for
\* one duration d >= 0 as the clock advances.
InitStale == Begin({WatchStale(d) : d \in 0 .. MaxDuration})

SpecStale == InitStale /\ [][Next]_vars

\* The same caller, writing into its input after the feed is built.
InitInput == Begin({NoWatch})

SpecInput == InitInput /\ [][NextInput]_vars

(***************************************************************************)
(* What the claims speak of.                                               *)
(***************************************************************************)
\* The content of a Price object.
PriceOf(conf, expo, price) ==
  [t |-> "object", arr |-> FALSE,
   props |-> [conf |-> conf, expo |-> expo, price |-> price]]

\* The content of the array [a, b].
PairOf(a, b) ==
  [t |-> "object", arr |-> TRUE, props |-> ("0" :> a) @@ ("1" :> b)]

\* obj[k] on the content of an object.
Read(obj, k) == IF k \in DOMAIN obj.props THEN obj.props[k] ELSE Undefined

Absent(v) == v = Undefined

\* The input is an object that supplies a metadata object.
SuppliesMetadata ==
  /\ src.snap.t = "object"
  /\ Read(src.snap, "metadata").t = "object"

\* C2: getCurrentPrice() returns undefined exactly when status is not
\* Trading, and otherwise a Price made of the feed's price, conf and expo.
C2_GetCurrentPrice ==
  ret.op = "getCurrentPrice" =>
    /\ ~ret.threw
    /\ Absent(ret.val) <=> feed.status # Trading
    /\ feed.status = Trading =>
         ret.snap = PriceOf(feed.conf, feed.expo, feed.price)

C2_Witness ==
  /\ ret.op = "getCurrentPrice"
  /\ feed.status = Trading
  /\ ret.snap = PriceOf(Str("1"), Num(4), Str("10"))

\* C3: getLatestAvailablePriceUnchecked() returns the current price with
\* publishTime when status is Trading, and the previous price with
\* prevPublishTime for every other status.
C3_GetLatestAvailablePriceUnchecked ==
  ret.op = "getLatestAvailablePriceUnchecked" =>
    /\ ~ret.threw
    /\ ret.snap =
         IF feed.status = Trading
           THEN PairOf(PriceOf(feed.conf, feed.expo, feed.price), feed.publishTime)
           ELSE PairOf(PriceOf(feed.prevConf, feed.expo, feed.prevPrice),
                       feed.prevPublishTime)

C3_Witness ==
  /\ ret.op = "getLatestAvailablePriceUnchecked"
  /\ feed.status = Str("Halted")
  /\ ret.snap = PairOf(PriceOf(Str("7"), Num(4), Str("8")), Num(1))

\* C4: getLatestAvailablePriceWithinDuration(d), called at the whole second
\* now, returns undefined exactly when |now - t| > d, where (p, t) is what
\* getLatestAvailablePriceUnchecked() returns, and returns p otherwise.
C4_WithinDuration ==
  ret.op = "getLatestAvailablePriceWithinDuration" =>
    LET pt == getLatestAvailablePriceUnchecked(feed, Live)
        p == Deep(pt.heap, Get(pt.heap, pt.val, "0"))
        t == Get(pt.heap, pt.val, "1").n
        now == ret.at \div 1000
        d == ret.arg
    IN /\ ~ret.threw
       /\ Absent(ret.val) <=> (now - t > d \/ t - now > d)
       /\ ~Absent(ret.val) => ret.snap = p

\* A timestamp in the future beyond the window yields undefined.
C4_Witness ==
  /\ ret.op = "getLatestAvailablePriceWithinDuration"
  /\ feed.status = Trading
  /\ ret.arg >= 0
  /\ feed.publishTime.n - (ret.at \div 1000) > ret.arg
  /\ Absent(ret.val)

C8_Metadata ==
  /\ feed # NoFeed => (~Absent(feed.metadata) <=> SuppliesMetadata)
  /\ ret.op = "getMetadata" =>
       /\ ~ret.threw
       /\ SuppliesMetadata =>
            /\ ret.snap.t = "object"
            /\ \A k \in MetadataFields :
                 Read(ret.snap, k) = Read(Read(src.snap, "metadata"), k)
       /\ ~SuppliesMetadata => Absent(ret.val)

C8_Witness ==
  /\ ret.op = "getMetadata"
  /\ SuppliesMetadata
  /\ Read(ret.snap, "attestation_time") = Num(7)
  /\ Read(ret.snap, "emitter_chain") = Num(8)
  /\ Read(ret.snap, "sequence_number") = Num(9)

\* C10: no accessor throws; a price that is not available is reported as
\* undefined.
C10_AccessorsNeverThrow ==
  ret.op \in Accessors =>
    /\ ~ret.threw
    /\ (ret.op = "getCurrentPrice" /\ feed.status # Trading) => Absent(ret.val)
    /\ (ret.op = "getMetadata" /\ Absent(feed.metadata)) => Absent(ret.val)

C10_Witness ==
  /\ ret.op = "getMetadata"
  /\ Absent(feed.metadata)
  /\ ~ret.threw
  /\ Absent(ret.val)

\* The declared key k of the input object J does not match the schema.
Malformed(J, k) ==
  LET v == Read(J, k)
  IN CASE k \in StringFields -> v.t # "string"
       [] k \in NumberFields -> v.t # "number"
       [] k = "status" -> ~(v.t = "string" /\ v.s \in Statuses)
       [] OTHER ->
            ~(\/ v = Undefined
              \/ /\ v.t = "object"
                 /\ ~v.arr
                 /\ \A f \in MetadataFields : Read(v, f).t = "number")

BadKeys(J) == {k \in Declared : Malformed(J, k)}

\* The keys an error about the malformed key k may name: k itself, or for
\* metadata the malformed key inside it.
KeysNaming(J, k) ==
  {k} \cup
  IF k = "metadata" /\ Read(J, k).t = "object" /\ ~Read(J, k).arr
    THEN {f \in MetadataFields : Read(Read(J, k), f).t # "number"}
    ELSE {}

IsPlainObject(J) == J.t = "object" /\ ~J.arr

\* Deep equality as the repository's test takes it (toEqual): a key whose
\* value is undefined counts as missing.  Stripped(v) is v without such keys.
RECURSIVE Stripped(_)
Stripped(v) ==
  IF v.t = "object"
    THEN [v EXCEPT !.props =
            [k \in {kk \in DOMAIN v.props : ~Absent(v.props[kk])} |->
               Stripped(v.props[k])]]
    ELSE v

ToEqual(a, b) == Stripped(a) = Stripped(b)

\* The object J without the keys the schema does not declare.
DeclaredPart(J) ==
  [J EXCEPT !.props = [k \in DOMAIN J.props \cap Declared |-> J.props[k]]]

\* C1, as stated: toJson() of the feed built from J deep-equals J, undeclared
\* properties of J included.
C1_RoundTrip ==
  ret.op = "toJson" => (~ret.threw /\ ToEqual(ret.snap, src.snap))

\* C1, amended: toJson() of the feed built from J deep-equals J without its
\* undeclared top-level properties: every declared key has the value J has
\* under it (metadata with all its properties, declared or not), and the
\* undeclared top-level properties of J are dropped.
C1_RoundTripDeclared ==
  ret.op = "toJson" =>
    /\ ~ret.threw
    /\ ToEqual(ret.snap, DeclaredPart(src.snap))
    /\ DOMAIN ret.snap.props \subseteq Declared

\* An input with an undeclared property at the top level and one inside its
\* metadata.
C1_Witness ==
  /\ ret.op = "toJson"
  /\ ~ret.threw
  /\ SuppliesMetadata
  /\ "slot" \in DOMAIN src.snap.props
  /\ "slot" \notin DOMAIN ret.snap.props
  /\ Read(Read(src.snap, "metadata"), "note") = Str("n")
  /\ Read(Read(ret.snap, "metadata"), "note") = Str("n")
  /\ Read(ret.snap, "ema_price") = Str("3")

\* C5: when exactly one declared field of the input is malformed, fromJson
\* throws an error whose message names the key of that field, with the
\* expected type and the actual value.
C5_ErrorNamesKey ==
  (/\ ret.op = "fromJson"
   /\ IsPlainObject(src.snap)
   /\ Cardinality(BadKeys(src.snap)) = 1) =>
    /\ ret.threw
    /\ ret.err.keyed
    /\ \E k \in BadKeys(src.snap) : ret.err.key \in KeysNaming(src.snap, k)

\* C6: the object toJson() returns has no key whose value is undefined; in
\* particular no metadata key when the feed has no metadata.
C6_NoAbsentKeys ==
  (ret.op = "toJson" /\ ~ret.threw) =>
    \A k \in DOMAIN ret.snap.props : ~Absent(ret.snap.props[k])

\* The key of toJson()'s output that carries the field of the feed.
JsonKey(field) ==
  CASE field = "emaConf" -> "ema_conf"
    [] field = "emaPrice" -> "ema_price"
    [] field = "maxNumPublishers" -> "max_num_publishers"
    [] field = "numPublishers" -> "num_publishers"
    [] field = "prevConf" -> "prev_conf"
    [] field = "prevPrice" -> "prev_price"
    [] field = "prevPublishTime" -> "prev_publish_time"
    [] field = "productId" -> "product_id"
    [] field = "publishTime" -> "publish_time"
    [] OTHER -> field

\* What a call returns, told from the fields the feed was built with.
FromBuilt ==
  CASE ret.op = "getCurrentPrice" ->
         ret.snap = IF built.status # Trading THEN Undefined
                    ELSE PriceOf(built.conf, built.expo, built.price)
    [] ret.op = "getEmaPrice" ->
         ret.snap = PriceOf(built.emaConf, built.expo, built.emaPrice)
    [] ret.op = "getLatestAvailablePriceUnchecked" ->
         ret.snap =
           IF built.status = Trading
             THEN PairOf(PriceOf(built.conf, built.expo, built.price),
                         built.publishTime)
             ELSE PairOf(PriceOf(built.prevConf, built.expo, built.prevPrice),
                         built.prevPublishTime)
    [] ret.op = "getLatestAvailablePriceWithinDuration" ->
         ret.snap \in
           {Undefined,
            IF built.status = Trading
              THEN PriceOf(built.conf, built.expo, built.price)
              ELSE PriceOf(built.prevConf, built.expo, built.prevPrice)}
    [] ret.op = "getMetadata" ->
         IF Absent(built.metadata) THEN Absent(ret.snap)
         ELSE /\ ret.snap.t = "object"
              /\ \A k \in MetadataFields :
                   Read(ret.snap, k) = Read(built.metadata, k)
    [] ret.op = "toJson" ->
         ret.threw \/
         \A field \in DOMAIN built : Read(ret.snap, JsonKey(field)) = built[field]
    [] OTHER -> TRUE

\* C9: an accessor returns an object made by that call, never one that
\* existed before it; whatever the caller writes into a returned Price or
\* metadata value, the fields and metadata of the feed stay what they were
\* when it was built, and every call returns what those fields determine.
C9_FreshCopies ==
  /\ (ret.op \in Accessors /\ ~ret.threw /\ IsObject(ret.val)) =>
       /\ ret.val.id > ret.before
       /\ IsArray(heap, ret.val) => Get(heap, ret.val, "0").id > ret.before
  /\ feed # NoFeed => DeepFeed(heap, feed) = built
  /\ FromBuilt

\* The caller has written into the metadata value it was handed.
C9_Witness ==
  /\ ret.op = "getMetadata"
  /\ WrittenFields # {}
  /\ Deep(heap, ret.val) # ret.snap
  /\ DeepFeed(heap, feed) = built
  /\ ~Absent(feed.metadata)

\* The declared keys in the order the transformer visits them.
SchemaOrder ==
  PropNames("jsonToJS", typeMap.PriceFeed, jsonToJSMap(typeMap.PriceFeed))

\* The first declared key of J, in that order, that does not match the schema.
FirstBad(J) ==
  SchemaOrder[CHOOSE i \in DOMAIN SchemaOrder :
                /\ SchemaOrder[i] \in BadKeys(J)
                /\ \A j \in 1 .. (i - 1) : SchemaOrder[j] \notin BadKeys(J)]

\* C11: when the input does not match the schema, fromJson throws and leaves
\* no PriceFeed behind, and the one error it throws is about the first
\* mismatch in schema order, however many fields are malformed: the value it
\* reports is the value of that field (the input itself when the input is no
\* object), and the key it names, if any, is that field's key.
C11_FailFast ==
  (ret.op = "fromJson" /\ (~IsPlainObject(src.snap) \/ BadKeys(src.snap) # {})) =>
    /\ ret.threw
    /\ feed = NoFeed
    /\ built = NoFeed
    /\ DOMAIN ret.err \in {{"keyed", "key", "typ", "val"}, {"keyed", "typ", "val"}}
    /\ IF IsPlainObject(src.snap)
         THEN /\ ret.err.val = Read(src.snap, FirstBad(src.snap))
              /\ ret.err.keyed => ret.err.key = FirstBad(src.snap)
         ELSE /\ ret.err.val = src.snap
              /\ ~ret.err.keyed

\* Two malformed fields, conf and expo: the error is about conf alone.
C11_Witness ==
  /\ ret.op = "fromJson"
  /\ IsPlainObject(src.snap)
  /\ {"conf", "expo"} \subseteq BadKeys(src.snap)
  /\ ret.threw
  /\ ret.err.keyed
  /\ ret.err.key = "conf"
  /\ feed = NoFeed

\* C12: the calls of toJson and of the accessors leave every field of the
\* feed, status and metadata included, as it was built, and a method called
\* again returns what its first call returned: for
\* getLatestAvailablePriceWithinDuration, when the argument and the second of
\* the clock are those of the first call.
C12_ReadOnly ==
  /\ feed # NoFeed => DeepFeed(heap, feed) = built
  /\ (watch.op \in Methods /\ watch.seen /\ ret.op = watch.op) =>
       /\ ~ret.threw
       /\ (\/ ret.op # WithinDuration
           \/ /\ ret.arg = watch.arg
              /\ CurrentTime(ret.at) = CurrentTime(watch.at)) =>
            ret.snap = watch.snap

\* getMetadata called again later, after the caller wrote into a value it
\* was handed.
C12_Witness ==
  /\ watch.op = "getMetadata"
  /\ watch.seen
  /\ ret.op = "getMetadata"
  /\ ret.at > watch.at
  /\ ~Absent(ret.val)
  /\ ret.snap = watch.snap
  /\ WrittenFields # {}

\* C13: fromJson returns a PriceFeed exactly when the input is an object,
\* not null and not an array, whose declared string fields are strings,
\* whose declared number fields are numbers, whose status is one of the four
\* cases and whose metadata is missing or an object with three number
\* fields; every other input makes it throw.  A missing required field and
\* a null metadata are mismatches; undeclared properties are never one.
C13_AcceptsExactly ==
  ret.op = "fromJson" =>
    (~ret.threw <=> (IsPlainObject(src.snap) /\ BadKeys(src.snap) = {}))

\* An input accepted with undeclared properties that hold a number, null and
\* an object.
C13_Witness ==
  /\ ret.op = "fromJson"
  /\ ~ret.threw
  /\ Read(src.snap, "tag") = Null
  /\ Read(src.snap, "slot") = Num(12)
  /\ SuppliesMetadata
  /\ Read(Read(src.snap, "metadata"), "origin").t = "object"
  /\ feed.status = Str("Auction")

\* The members of the schema's only union, the type of metadata.
MetadataUnion == << TUndefined, r("PriceFeedMetadata") >>

\* C14: the union (undefined | PriceFeedMetadata) of metadata is tried in
\* list order.  A missing metadata validates as the first member: the feed
\* has no metadata and the second member is not tried (its key table is not
\* even computed).  A metadata object fails the first member, whose error is
\* dropped, and is validated as PriceFeedMetadata: the feed's metadata has
\* the content of the input's.  When metadata is the first mismatch, the
\* error names no key, reports the metadata value and lists the whole union
\* as the expected type.
C14_Union ==
  (ret.op = "fromJson" /\ IsPlainObject(src.snap)) =>
    /\ (~ret.threw /\ ~SuppliesMetadata) =>
         /\ Absent(feed.metadata)
         /\ ~memo.jsonToJS["PriceFeedMetadata"].set
    /\ (~ret.threw /\ SuppliesMetadata) =>
         /\ IsObject(feed.metadata)
         /\ Deep(heap, feed.metadata) = Read(src.snap, "metadata")
         /\ memo.jsonToJS["PriceFeedMetadata"].set
    /\ (BadKeys(src.snap) # {} /\ FirstBad(src.snap) = "metadata") =>
         /\ ret.threw
         /\ ~ret.err.keyed
         /\ ret.err.typ = [kind |-> "typs", unionMembers |-> MetadataUnion]
         /\ ret.err.val = Read(src.snap, "metadata")

\* A metadata object with a malformed field: no member validates it.
C14_Witness ==
  /\ ret.op = "fromJson"
  /\ ret.threw
  /\ SuppliesMetadata
  /\ Read(Read(src.snap, "metadata"), "emitter_chain") = Str("8")
  /\ ret.err.typ = [kind |-> "typs", unionMembers |-> MetadataUnion]

\* The own properties of the object content J that are not in the set keys.
Undeclared(J, keys) == DOMAIN J.props \ keys

\* C15: for a valid input J, Convert.priceFeedToJson(Convert.toPriceFeed(J))
\* has the value of J under every declared key, and every undeclared
\* property of J, at the top level and inside metadata, is in the typed
\* value and in the mirrored JSON under its key with its value.
C15_Mirror ==
  (/\ ret.op = "mirror"
   /\ IsPlainObject(src.snap)
   /\ BadKeys(src.snap) = {}) =>
    /\ ~ret.threw
    /\ \A k \in Declared :
         /\ Read(ret.typed, k) = Read(src.snap, k)
         /\ Read(ret.snap, k) = Read(src.snap, k)
    /\ \A k \in Undeclared(src.snap, Declared) :
         /\ k \in DOMAIN ret.typed.props
         /\ k \in DOMAIN ret.snap.props
         /\ ret.typed.props[k] = src.snap.props[k]
         /\ ret.snap.props[k] = src.snap.props[k]
    /\ SuppliesMetadata =>
         \A k \in Undeclared(Read(src.snap, "metadata"), MetadataFields) :
           /\ k \in DOMAIN Read(ret.typed, "metadata").props
           /\ k \in DOMAIN Read(ret.snap, "metadata").props
           /\ Read(ret.typed, "metadata").props[k]
                = Read(src.snap, "metadata").props[k]
           /\ Read(ret.snap, "metadata").props[k]
                = Read(src.snap, "metadata").props[k]

\* Undeclared properties at the top level and inside metadata, mirrored.
C15_Witness ==
  /\ ret.op = "mirror"
  /\ ~ret.threw
  /\ Read(ret.snap, "slot") = Num(12)
  /\ Read(ret.typed, "tag") = Null
  /\ SuppliesMetadata
  /\ Read(Read(ret.snap, "metadata"), "note") = Str("n")
  /\ Read(Read(ret.typed, "metadata"), "origin").t = "object"

\* The objects that can be reached from the value v.
RECURSIVE Reachable(_, _)
Reachable(h, v) ==
  IF IsObject(v)
    THEN {v.id} \cup UNION {Reachable(h, Get(h, v, k)) : k \in OwnKeys(h, v)}
    ELSE {}

\* C16: fromJson leaves the input as it was, and the feed holds no alias
\* into the input: whatever the caller writes into the objects of the input
\* after fromJson has returned, the feed's fields and metadata have the
\* content they were built with and every later call returns what that
\* content determines; no object of the input can be reached from the feed.
C16_NoAliasIntoInput ==
  /\ (ret.op = "fromJson" /\ InputWritten = {}) => Deep(heap, src.val) = src.snap
  /\ feed # NoFeed => Reachable(heap, feed.metadata) \cap InputObjects = {}
  /\ feed # NoFeed => DeepFeed(heap, feed) = built
  /\ FromBuilt

\* typeMap with every key table computed in advance.
EagerMemo ==
  [jsonToJS |-> [n \in ObjectNodes |->
                   [set |-> TRUE, map |-> jsonToJSMap(typeMap[n])]],
   jsToJSON |-> [n \in ObjectNodes |->
                   [set |-> TRUE, map |-> jsToJSONMap(typeMap[n])]]]

\* The objects of the input, as fromJson finds them.
InputLive == SubSeq(heap, 1, IF IsObject(src.val) THEN src.val.id ELSE 0)

\* How fromJson on the caller's input ends when typeMap holds the tables m.
FromJsonOutcome(m) ==
  LET res == fromJson(src.val, InputLive, m)
  IN IF res.ok THEN [threw |-> FALSE, feed |-> DeepFeed(res.heap, res.feed)]
     ELSE [threw |-> TRUE, err |-> res.err]

\* How toJson on the caller's feed ends when typeMap holds the tables m.
ToJsonOutcome(m) ==
  LET res == toJson(feed, Live, m)
  IN IF res.ok THEN [threw |-> FALSE, snap |-> Deep(res.heap, res.val)]
     ELSE [threw |-> TRUE, err |-> res.err]

\* How the last call of fromJson or toJson ended.
LastOutcome ==
  CASE ret.threw -> [threw |-> TRUE, err |-> ret.err]
    [] ret.op = "fromJson" -> [threw |-> FALSE, feed |-> built]
    [] OTHER -> [threw |-> FALSE, snap |-> ret.snap]

\* A key table is either not computed or the table of its node.
TablesRight ==
  \A n \in ObjectNodes :
    /\ memo.jsonToJS[n] \in {NoTable, [set |-> TRUE, map |-> jsonToJSMap(typeMap[n])]}
    /\ memo.jsToJSON[n] \in {NoTable, [set |-> TRUE, map |-> jsToJSONMap(typeMap[n])]}

\* Whatever tables a call of fromJson or toJson found memoized, it ended as
\* it ends with no table computed and with every table computed in advance.
SameOutcome ==
  /\ ret.op = "fromJson" =>
       \A m \in {NoMemo, EagerMemo} : FromJsonOutcome(m) = LastOutcome
  /\ ret.op = "toJson" =>
       \A m \in {NoMemo, EagerMemo} : ToJsonOutcome(m) = LastOutcome

\* A table that is computed stays as it is.
TablesKept ==
  \A n \in ObjectNodes :
    /\ memo.jsonToJS[n].set => memo'.jsonToJS[n] = memo.jsonToJS[n]
    /\ memo.jsToJSON[n].set => memo'.jsToJSON[n] = memo.jsToJSON[n]

\* C17: each object node of typeMap has one table per direction, which is
\* either not computed or the table of the node, and once computed never
\* changes; and fromJson and toJson end the same way (the same value, the
\* same error) whatever tables earlier calls, successful or failed, of this
\* or of other callers have left memoized, as they do with no table computed
\* and with all tables computed in advance.
C17_PureMemoization == [](TablesRight /\ SameOutcome) /\ [][TablesKept]_vars

\* fromJson on an input with metadata, run when other calls had already
\* computed both tables of its direction.
C17_Witness ==
  /\ ret.op = "fromJson"
  /\ ~ret.threw
  /\ SuppliesMetadata
  /\ ret.tables.jsonToJS["PriceFeed"].set
  /\ ret.tables.jsonToJS["PriceFeedMetadata"].set
  /\ ~ret.tables.jsToJSON["PriceFeed"].set

\* Each call returns what it returns when it is run alone: fromJson and
\* toJson end as they do from typeMap as the module defines it, an accessor
\* returns what the fields the feed was built with determine, and the feed
\* keeps the content it was built with.
SameAsAlone ==
  /\ ret.op = "fromJson" => FromJsonOutcome(NoMemo) = LastOutcome
  /\ ret.op = "toJson" => ToJsonOutcome(NoMemo) = LastOutcome
  /\ feed # NoFeed => DeepFeed(heap, feed) = built
  /\ FromBuilt

\* C18, as stated: no operation writes state that another operation reads,
\* so typeMap, which every fromJson and toJson reads, is never written; and
\* each call returns what it returns when run alone.
C18_NoSharedState == memo = NoMemo /\ SameAsAlone

\* C18, amended: the operations do share mutable state, the key tables
\* memoized in typeMap, which fromJson and toJson write and read; with the
\* calls of any callers interleaved call by call, each call still returns
\* what it returns when run alone.
C18_SameResultsInterleaved ==
  /\ TablesRight
  /\ SameAsAlone

\* toJson on a feed without metadata, run when another caller's toJson had
\* already written the tables it reads.
C18_Witness ==
  /\ ret.op = "toJson"
  /\ ~ret.threw
  /\ Absent(feed.metadata)
  /\ ret.tables.jsToJSON["PriceFeed"].set
  /\ ret.tables.jsToJSON["PriceFeedMetadata"].set
  /\ memo # NoMemo

Unchecked == "getLatestAvailablePriceUnchecked"

\* C19: the accessors agree on one feed.  When getCurrentPrice() returns a
\* Price, getLatestAvailablePriceUnchecked() returns an equal Price paired
\* with publishTime; when getLatestAvailablePriceWithinDuration(d) returns a
\* Price, it equals the Price getLatestAvailablePriceUnchecked() returns,
\* which for a feed that is not Trading is the previous price, within d of
\* prevPublishTime.  The calls compared are the first call of one method and
\* a later call of the other.
C19_AccessorsAgree ==
  (watch.op \in Methods /\ watch.seen) =>
    /\ (/\ watch.op = Unchecked
        /\ ret.op = "getCurrentPrice"
        /\ ~Absent(ret.val)) =>
         watch.snap = PairOf(ret.snap, feed.publishTime)
    /\ (/\ watch.op = "getCurrentPrice"
        /\ ~Absent(watch.snap)
        /\ ret.op = Unchecked) =>
         ret.snap = PairOf(watch.snap, feed.publishTime)
    /\ (/\ watch.op = Unchecked
        /\ ret.op = WithinDuration
        /\ ~Absent(ret.val)) =>
         /\ ret.snap = Read(watch.snap, "0")
         /\ Abs(CurrentTime(ret.at) - Read(watch.snap, "1").n) <= ret.arg
         /\ feed.status # Trading =>
              /\ ret.snap = PriceOf(feed.prevConf, feed.expo, feed.prevPrice)
              /\ Read(watch.snap, "1") = feed.prevPublishTime
    /\ (/\ watch.op = WithinDuration
        /\ ~Absent(watch.snap)
        /\ ret.op = Unchecked) =>
         Read(ret.snap, "0") = watch.snap

\* A feed that is not Trading: the price within the duration is the
\* previous price that getLatestAvailablePriceUnchecked() returned before.
C19_Witness ==
  /\ watch.op = Unchecked
  /\ watch.seen
  /\ ret.op = WithinDuration
  /\ ~Absent(ret.val)
  /\ feed.status = Str("Halted")
  /\ ret.snap = PriceOf(Str("7"), Num(4), Str("8"))
  /\ ret.snap = Read(watch.snap, "0")

\* C20: for a feed whose latest available timestamp is t and a duration
\* d >= 0, while the clock only advances, the call
\* getLatestAvailablePriceWithinDuration(d) returns the price exactly when
\* t - d <= now <= t + d.  Among the calls with one d: once a call made at
\* now >= t has returned undefined, every later call returns undefined; an
\* undefined returned at now < t comes before every price and before every
\* such undefined.  At one now, a price returned for d is also returned for
\* every longer duration.
C20_StalePermanently ==
  ret.op = WithinDuration =>
    LET t == LatestTime(feed)
        now == CurrentTime(ret.at)
        d == ret.arg
    IN /\ d >= 0 => (~Absent(ret.val) <=> (t - d <= now /\ now <= t + d))
       /\ (watch.op = "stale" /\ watch.arg = d) =>
            /\ watch.gone => Absent(ret.val)
            /\ (Absent(ret.val) /\ now < t) => (~watch.present /\ ~watch.gone)
            /\ (Absent(ret.val) /\ watch.present) => (watch.gone /\ now > t + d)
       /\ ~Absent(ret.val) =>
            \A d2 \in Durations :
              d2 >= d =>
                ~Absent(getLatestAvailablePriceWithinDuration(
                          feed, d2, ret.at, Live).val)

\* A timestamp ahead of the clock: undefined first, then the price, then
\* undefined again.
C20_Witness ==
  /\ ret.op = WithinDuration
  /\ watch.op = "stale"
  /\ ret.arg = watch.arg
  /\ watch.early
  /\ watch.present
  /\ watch.gone
  /\ Absent(ret.val)
  /\ CurrentTime(ret.at) > LatestTime(feed) + ret.arg

=============================================================================
